---- MODULE Spec2Model ----
(***************************************************************************)
(* Model of src/parser.js: parseTransfersFromSignature and its helpers.    *)
(*                                                                         *)
(* One run of parseTransfersFromSignature is a sequence of steps: fetch    *)
(* the parsed transaction, decode the raw transfers (A), build the two     *)
(* partial maps (B), unify them, collect the addresses still to fetch,     *)
(* await the one batched account lookup, incorporate its results, rewrite  *)
(* owners / backfill mint and decimals, and return the mapped list.        *)
(*                                                                         *)
(* JavaScript values: a missing / undefined / null string is Null, a       *)
(* missing number is Undefined.  Amounts are decimal strings (and lamport  *)
(* numbers printed by String()), held as sequences of digits, most         *)
(* significant first; the empty sequence is the missing / empty amount.    *)
(***************************************************************************)
EXTENDS Integers, Sequences, FiniteSets, TLC

VARIABLES
    pc,                  \* position inside parseTransfersFromSignature
    includeSolTransfers, \* second argument of parseTransfersFromSignature
    parsedTx,            \* result of conn.getParsedTransaction
    transfers,           \* the `transfers` array (mutated in place by the rewrite loops)
    decoded,             \* the events as step A decoded them (history, for the frame claims)
    ixMap,               \* buildTokenAccountMapFromInstructions result
    balMap,              \* buildTokenAccountMapFromBalances result
    tokenAccountData,    \* the unified knowledge base
    addressesToFetch,    \* the Set, in insertion order
    onChainCache,        \* filled by fetchMultipleTokenAccountInfos
    rpcLog,              \* the argument list of every getMultipleAccountsInfo call
    result               \* the returned array (empty until the return)

vars == << pc, includeSolTransfers, parsedTx, transfers, decoded, ixMap, balMap,
           tokenAccountData, addressesToFetch, onChainCache,
           rpcLog, result >>

\* ---------------------------------------------------------------- values

Null == "null"

Undefined == -1

UNKNOWN_MINT == "UNKNOWN_MINT"

SOL == "SOL"

TOKEN_PROGRAM_ID == "TokenkegQfeZyiNwAJbNbGKPFXCWuBvf9Ss623VQ5DA"

MIN_TOKEN_ACCOUNT_DATA_LEN == 64

\* JavaScript truthiness of a string field (undefined, null and "" are falsy).
Truthy(s) == s # Null /\ s # ""

\* a || b on string fields.
Or(a, b) == IF Truthy(a) THEN a ELSE b

\* Truthiness of a digit string / number: missing, "" and the number 0 are falsy.
TruthyAmount(d) == d # <<>>

TruthyNumber(d) == d # <<>> /\ \E i \in 1..Len(d) : d[i] # 0

\* The empty object {} of a knowledge entry: every field unset.
EmptyEntry == [owner |-> Null, mint |-> Null, decimals |-> Undefined]

EmptyMap == [k \in {} |-> Null]

\* obj[key] = value on an object held as a function with a finite domain.
Put(map, key, value) ==
    [k \in (DOMAIN map) \cup {key} |-> IF k = key THEN value ELSE map[k]]

\* tokenAccountData[addr] || {}
EntryOf(map, key) == IF key \in DOMAIN map THEN map[key] ELSE EmptyEntry

Range(s) == {s[i] : i \in 1..Len(s)}

\* ------------------------------------------------- 4.1 instruction decoder

\* parseInstructionTransfers, lines 73-93: the SPL token branch.
TokenTransferEvents(ix) ==
    IF ix.type \in {"transfer", "transferChecked", "transferCheckedWithFee"}
    THEN LET rawFrom == Or(ix.source, ix.authority)
             rawTo   == ix.destination
             amt     == IF TruthyAmount(ix.amount) THEN ix.amount
                        ELSE IF ix.tokenAmount.present /\ TruthyAmount(ix.tokenAmount.amount)
                             THEN ix.tokenAmount.amount
                             ELSE <<0>>
             mt      == Or(ix.mint, UNKNOWN_MINT)
             dec     == IF ix.tokenAmount.present /\ ix.tokenAmount.decimals # Undefined
                           /\ ix.tokenAmount.decimals # 0
                        THEN ix.tokenAmount.decimals ELSE 0
         IN << [from |-> rawFrom, to |-> rawTo, mint |-> mt, amount |-> amt,
                decimals |-> dec, rawFrom |-> rawFrom, rawTo |-> rawTo] >>
    ELSE <<>>

\* parseInstructionTransfers, lines 95-106: the SOL transfer branch.
SolTransferEvents(ix, includeSol) ==
    IF includeSol /\ ix.type = "transfer" /\ TruthyNumber(ix.lamports)
    THEN << [from |-> ix.source, to |-> ix.destination, mint |-> SOL,
             amount |-> ix.lamports, decimals |-> 9,
             rawFrom |-> ix.source, rawTo |-> ix.destination] >>
    ELSE <<>>

\* parseInstructionTransfers, lines 108-119: createAccount funds the new account.
CreateAccountEvents(ix, includeSol) ==
    IF includeSol /\ ix.type = "createAccount" /\ TruthyNumber(ix.lamports)
    THEN << [from |-> ix.source, to |-> ix.newAccount, mint |-> SOL,
             amount |-> ix.lamports, decimals |-> 9,
             rawFrom |-> ix.source, rawTo |-> ix.newAccount] >>
    ELSE <<>>

\* An instruction without parsed.info, or without a type, has type Null.
parseInstructionTransfers(ix, includeSol) ==
    IF ~Truthy(ix.type) THEN <<>>
    ELSE TokenTransferEvents(ix) \o SolTransferEvents(ix, includeSol)
         \o CreateAccountEvents(ix, includeSol)

RECURSIVE Flatten(_)
Flatten(groups) ==
    IF groups = <<>> THEN <<>> ELSE Head(groups) \o Flatten(Tail(groups))

\* Top-level instructions first, then every inner group, in order.
AllInstructions(tx) == tx.instructions \o Flatten(tx.innerInstructions)

RECURSIVE GatherTransfers(_, _)
GatherTransfers(ixs, includeSol) ==
    IF ixs = <<>> THEN <<>>
    ELSE parseInstructionTransfers(Head(ixs), includeSol)
         \o GatherTransfers(Tail(ixs), includeSol)

\* ------------------------------------------------ 4.2 static hint extractor

\* type.startsWith("initializeAccount"), over the type tags of the token program.
StartsWithInitializeAccount(type) ==
    type \in {"initializeAccount", "initializeAccount2", "initializeAccount3"}

\* type.startsWith("create"), over the type tags of the system and
\* associated-token programs.
StartsWithCreate(type) ==
    type \in {"create", "createIdempotent", "createAccount", "createAccountWithSeed"}

handleIx(map, ix) ==
    IF ~Truthy(ix.type) THEN map
    ELSE IF StartsWithInitializeAccount(ix.type) /\ Truthy(ix.account) /\ Truthy(ix.owner)
         THEN Put(map, ix.account, ix.owner)
    ELSE IF StartsWithCreate(ix.type)
            /\ (Truthy(ix.account) \/ Truthy(ix.newAccount))
            /\ (Truthy(ix.owner) \/ Truthy(ix.wallet))
         THEN Put(map, Or(ix.account, ix.newAccount), Or(ix.owner, ix.wallet))
    ELSE map

RECURSIVE HandleAll(_, _)
HandleAll(map, ixs) ==
    IF ixs = <<>> THEN map ELSE HandleAll(handleIx(map, Head(ixs)), Tail(ixs))

buildTokenAccountMapFromInstructions(tx) == HandleAll(EmptyMap, AllInstructions(tx))

\* --------------------------------------------- 4.3 balance snapshot extractor

\* keys[b.accountIndex], as a string or as an object's pubkey; Null when the
\* index is outside the list.  JavaScript indexes from 0.
AccountAt(keys, index) ==
    IF index + 1 \in 1..Len(keys)
    THEN (IF keys[index + 1].isString THEN keys[index + 1].value
          ELSE keys[index + 1].pubkey)
    ELSE Null

\* One iteration of the loop of gather.
gatherOne(map, keys, b) ==
    IF b.accountIndex = Undefined THEN map
    ELSE LET acct == AccountAt(keys, b.accountIndex)
         IN IF ~Truthy(acct) THEN map
            ELSE LET old == EntryOf(map, acct)
                 IN Put(map, acct,
                        [mint     |-> IF Truthy(b.mint) THEN b.mint ELSE old.mint,
                         owner    |-> IF Truthy(b.owner) THEN b.owner ELSE old.owner,
                         decimals |-> IF b.decimals # Undefined THEN b.decimals
                                      ELSE old.decimals])

RECURSIVE gather(_, _, _)
gather(map, keys, balArr) ==
    IF balArr = <<>> THEN map
    ELSE gather(gatherOne(map, keys, Head(balArr)), keys, Tail(balArr))

buildTokenAccountMapFromBalances(tx) ==
    gather(gather(EmptyMap, tx.accountKeys, tx.preTokenBalances),
           tx.accountKeys, tx.postTokenBalances)

\* ----------------------------------------------- 4.4 resolution cache merger

\* Mutant of Unify: the hint fills the owner only where the snapshot left none.
UnifyKeepingSnapshotOwner(bal, ix) ==
    [a \in (DOMAIN bal) \cup (DOMAIN ix) |->
        IF a \in DOMAIN ix /\ ~Truthy(EntryOf(bal, a).owner)
        THEN [EntryOf(bal, a) EXCEPT !.owner = ix[a]]
        ELSE bal[a]]

\* Lines 199-206: copy balMap, then overwrite owner with every ixMap entry.
Unify(bal, ix) ==
    [a \in (DOMAIN bal) \cup (DOMAIN ix) |->
        IF a \in DOMAIN ix
        THEN [EntryOf(bal, a) EXCEPT !.owner = ix[a]]
        ELSE bal[a]]

\* ---------------------------------------------------- 4.5 on-chain resolver

\* The test of lines 217-218 on one endpoint address.
NeedsFetch(kb, addr) ==
    \/ addr \notin DOMAIN kb
    \/ ~Truthy(kb[addr].owner)
    \/ kb[addr].mint = UNKNOWN_MINT

\* Mutant of SetAdd: an array push instead of a Set add.
SetAddKeepingDuplicates(list, addr) == Append(list, addr)

\* addressesToFetch.add(addr): a Set keeps one copy, in insertion order.
SetAdd(list, addr) == IF addr \in Range(list) THEN list ELSE Append(list, addr)

\* The forEach of lines 215-221 over [t.rawFrom, t.rawTo].
AddEndpoints(list, kb, t) ==
    LET l1 == IF NeedsFetch(kb, t.rawFrom) THEN SetAdd(list, t.rawFrom) ELSE list
    IN IF NeedsFetch(kb, t.rawTo) THEN SetAdd(l1, t.rawTo) ELSE l1

RECURSIVE CollectAddresses(_, _, _)
CollectAddresses(list, kb, ts) ==
    IF ts = <<>> THEN list
    ELSE CollectAddresses(AddEndpoints(list, kb, Head(ts)), kb, Tail(ts))

NotResolvable == [owner |-> Null, mint |-> Null]

\* Lines 146-165: what one returned account info puts in the cache.
ParseAccountInfo(info) ==
    IF ~info.found \/ info.owner # TOKEN_PROGRAM_ID THEN NotResolvable
    ELSE IF info.dataLength < MIN_TOKEN_ACCOUNT_DATA_LEN THEN NotResolvable
    ELSE [owner |-> info.dataOwner, mint |-> info.dataMint]

\* The loop of lines 141-166 over the returned array.
RECURSIVE fetchMultipleTokenAccountInfos(_, _, _, _)
fetchMultipleTokenAccountInfos(tokenAccounts, accountInfos, cache, i) ==
    IF i > Len(accountInfos) THEN cache
    ELSE fetchMultipleTokenAccountInfos(tokenAccounts, accountInfos,
            Put(cache, tokenAccounts[i], ParseAccountInfo(accountInfos[i])), i + 1)

\* Mutant of IncorporateOne: the cached fields are assigned whatever they hold.
IncorporateOneUnconditionally(kb, cache, addr) ==
    LET old == EntryOf(kb, addr)
        hit == addr \in DOMAIN cache
    IN Put(kb, addr,
           [old EXCEPT !.owner = IF hit THEN cache[addr].owner ELSE @,
                       !.mint  = IF hit THEN cache[addr].mint ELSE @])

\* Lines 235-245 for one address: only truthy cached fields overwrite.
IncorporateOne(kb, cache, addr) ==
    LET old == EntryOf(kb, addr)
        hit == addr \in DOMAIN cache
    IN Put(kb, addr,
           [old EXCEPT
              !.owner = IF hit /\ Truthy(cache[addr].owner) THEN cache[addr].owner ELSE @,
              !.mint  = IF hit /\ Truthy(cache[addr].mint) THEN cache[addr].mint ELSE @])

RECURSIVE Incorporate(_, _, _)
Incorporate(kb, cache, addrs) ==
    IF addrs = <<>> THEN kb
    ELSE Incorporate(IncorporateOne(kb, cache, Head(addrs)), cache, Tail(addrs))

\* ------------------------------------------- 4.6 reconciliation & normalizer

\* Mutant of RewriteOwners: the owner field is copied without testing it.
RewriteOwnersUntested(t, kb) ==
    [t EXCEPT !.from = IF t.rawFrom \in DOMAIN kb THEN kb[t.rawFrom].owner ELSE @,
              !.to   = IF t.rawTo \in DOMAIN kb THEN kb[t.rawTo].owner ELSE @]

\* Lines 250-253.
RewriteOwners(t, kb) ==
    LET fromOwner == IF t.rawFrom \in DOMAIN kb /\ Truthy(kb[t.rawFrom].owner)
                     THEN kb[t.rawFrom].owner ELSE t.from
        toOwner   == IF t.rawTo \in DOMAIN kb /\ Truthy(kb[t.rawTo].owner)
                     THEN kb[t.rawTo].owner ELSE t.to
    IN [t EXCEPT !.from = fromOwner, !.to = toOwner]

\* Mutant of FixMint: only the source container is consulted.
FixMintFromSourceOnly(t, kb) ==
    LET fData == EntryOf(kb, t.rawFrom)
    IN IF t.mint = UNKNOWN_MINT /\ Truthy(fData.mint)
       THEN [t EXCEPT !.mint = fData.mint,
                      !.decimals = IF fData.decimals # Undefined
                                   THEN fData.decimals ELSE @]
       ELSE t

\* Lines 262-274.
FixMint(t, kb) ==
    LET fData  == EntryOf(kb, t.rawFrom)
        toData == EntryOf(kb, t.rawTo)
    IN IF t.mint # UNKNOWN_MINT THEN t
       ELSE IF Truthy(fData.mint)
            THEN [t EXCEPT !.mint = fData.mint,
                           !.decimals = IF fData.decimals # Undefined
                                        THEN fData.decimals ELSE @]
       ELSE IF Truthy(toData.mint)
            THEN [t EXCEPT !.mint = toData.mint,
                           !.decimals = IF toData.decimals # Undefined
                                        THEN toData.decimals ELSE @]
       ELSE t

\* Mutant of FixDecimals: the test for decimals === 0 is dropped.
FixDecimalsAlways(t, kb) ==
    LET fData  == EntryOf(kb, t.rawFrom)
        toData == EntryOf(kb, t.rawTo)
    IN IF fData.decimals # Undefined /\ fData.decimals > 0
       THEN [t EXCEPT !.decimals = fData.decimals]
       ELSE IF toData.decimals # Undefined /\ toData.decimals > 0
            THEN [t EXCEPT !.decimals = toData.decimals]
       ELSE t

\* Lines 277-283.
FixDecimals(t, kb) ==
    LET fData  == EntryOf(kb, t.rawFrom)
        toData == EntryOf(kb, t.rawTo)
    IN IF t.decimals # 0 THEN t
       ELSE IF fData.decimals # Undefined /\ fData.decimals > 0
            THEN [t EXCEPT !.decimals = fData.decimals]
       ELSE IF toData.decimals # Undefined /\ toData.decimals > 0
            THEN [t EXCEPT !.decimals = toData.decimals]
       ELSE t

Zeros(n) == [i \in 1..n |-> 0]

RECURSIVE StripLeadingZeros(_)
StripLeadingZeros(d) ==
    IF Len(d) > 1 /\ Head(d) = 0 THEN StripLeadingZeros(Tail(d)) ELSE d

RECURSIVE StripTrailingZeros(_)
StripTrailingZeros(d) ==
    IF d # <<>> /\ d[Len(d)] = 0
    THEN StripTrailingZeros(SubSeq(d, 1, Len(d) - 1)) ELSE d

\* parseFloat(x.amount) / Math.pow(10, x.decimals || 0), lines 288-293, as the
\* exact decimal: integer digits and fraction digits.  x.amount is a string
\* of digits; the empty string parses to NaN and leaves uiAmount null.
UiAmount(amount, decimals) ==
    IF amount = <<>> THEN [isNull |-> TRUE, int |-> <<>>, frac |-> <<>>]
    ELSE LET padded == Zeros(decimals) \o amount
         IN [isNull |-> FALSE,
             int    |-> StripLeadingZeros(SubSeq(padded, 1, Len(amount))),
             frac   |-> StripTrailingZeros(SubSeq(padded, Len(amount) + 1, Len(padded)))]

\* The map of lines 287-307.
Resolved(x) ==
    [fromTokenAccount |-> x.rawFrom, toTokenAccount |-> x.rawTo,
     fromUserAccount |-> x.from, toUserAccount |-> x.to,
     amount |-> x.amount, mint |-> x.mint, decimals |-> x.decimals,
     uiAmount |-> UiAmount(x.amount, x.decimals)]

\* ------------------------------------------------------------------ inputs

MaxTop == 1

MaxBal == 1

SeqsUpTo(S, n) == UNION {[1..k -> S] : k \in 0..n}

BlankIx ==
    [type |-> Null, source |-> Null, authority |-> Null, destination |-> Null,
     amount |-> <<>>, mint |-> Null,
     tokenAmount |-> [present |-> FALSE, amount |-> <<>>, decimals |-> Undefined],
     lamports |-> <<>>, account |-> Null, newAccount |-> Null,
     owner |-> Null, wallet |-> Null]

\* spl-token transfer: no mint, no decimals in the payload.
TokenTransferIx ==
    [BlankIx EXCEPT !.type = "transfer", !.source = "C1", !.destination = "C2",
                    !.authority = "OwnerA", !.amount = <<5, 0, 0>>]

\* A transfer payload without source: the authority stands in for it.
AuthorityTransferIx ==
    [BlankIx EXCEPT !.type = "transfer", !.authority = "C2", !.destination = "C1",
                    !.amount = <<7>>]

\* spl-token transferChecked: mint and tokenAmount in the payload.
TransferCheckedIx ==
    [BlankIx EXCEPT !.type = "transferChecked", !.source = "C1", !.destination = "C2",
                    !.authority = "OwnerA", !.mint = "MintX",
                    !.tokenAmount = [present |-> TRUE,
                                     amount |-> <<1, 0, 0, 0, 0, 0, 0>>, decimals |-> 6]]

\* system-program transfer of 5000000000 lamports.
SystemTransferIx ==
    [BlankIx EXCEPT !.type = "transfer", !.source = "C1", !.destination = "C2",
                    !.lamports = <<5, 0, 0, 0, 0, 0, 0, 0, 0, 0>>]

\* system-program createAccount: the new account is handed to the token program.
CreateAccountIx ==
    [BlankIx EXCEPT !.type = "createAccount", !.source = "OwnerA", !.newAccount = "C2",
                    !.lamports = <<2, 0, 3, 9, 2, 8, 0>>, !.owner = TOKEN_PROGRAM_ID]

\* spl-token initializeAccount3: reveals the owner of C1.
InitializeAccountIx ==
    [BlankIx EXCEPT !.type = "initializeAccount3", !.account = "C1",
                    !.owner = "OwnerA", !.mint = "MintX"]

\* An instruction the RPC node could not parse: no parsed.info.
UnparsedIx == BlankIx

IxPool == {TokenTransferIx, AuthorityTransferIx, TransferCheckedIx, SystemTransferIx, CreateAccountIx,
           InitializeAccountIx, UnparsedIx}

\* accountKeys, once as a string and once as a {pubkey} object.
AccountKeys ==
    << [isString |-> TRUE, value |-> "C1", pubkey |-> Null],
       [isString |-> FALSE, value |-> Null, pubkey |-> "C2"] >>

BalPool ==
    { [accountIndex |-> 0, mint |-> "MintA", owner |-> "OwnerB", decimals |-> 9],
      [accountIndex |-> 1, mint |-> "MintB", owner |-> Null, decimals |-> 2],
      [accountIndex |-> 1, mint |-> "MintB", owner |-> "OwnerB", decimals |-> Undefined] }

\* meta.innerInstructions: no group, or one group holding one instruction
\* (one cross-program invocation).
InnerGroups == {<<>>} \cup {<< <<ix>> >> : ix \in IxPool}

\* getParsedTransaction found nothing, or a transaction without meta.
NoTx ==
    [present |-> FALSE, instructions |-> <<>>, innerInstructions |-> <<>>,
     accountKeys |-> <<>>, preTokenBalances |-> <<>>, postTokenBalances |-> <<>>]

Transactions ==
    {NoTx} \cup
    { [present |-> TRUE, instructions |-> top, innerInstructions |-> inner,
       accountKeys |-> AccountKeys, preTokenBalances |-> pre, postTokenBalances |-> post] :
        top \in SeqsUpTo(IxPool, MaxTop),
        inner \in InnerGroups,
        pre \in SeqsUpTo(BalPool, MaxBal),
        post \in SeqsUpTo(BalPool, MaxBal) }

\* What getMultipleAccountsInfo can return for one address: null, an account
\* of another program, a token-program account with short data, a token account.
AccountInfos ==
    { [found |-> FALSE, owner |-> Null, dataLength |-> 0, dataMint |-> Null, dataOwner |-> Null],
      [found |-> TRUE, owner |-> "11111111111111111111111111111111", dataLength |-> 0,
       dataMint |-> Null, dataOwner |-> Null],
      [found |-> TRUE, owner |-> TOKEN_PROGRAM_ID, dataLength |-> 32,
       dataMint |-> "MintY", dataOwner |-> Null],
      [found |-> TRUE, owner |-> TOKEN_PROGRAM_ID, dataLength |-> 165,
       dataMint |-> "MintY", dataOwner |-> "OwnerC"] }

\* ----------------------------------------------------------------- actions

Init ==
    /\ pc = "start"
    /\ includeSolTransfers \in BOOLEAN
    /\ parsedTx = NoTx
    /\ transfers = <<>>
    /\ decoded = <<>>
    /\ ixMap = EmptyMap
    /\ balMap = EmptyMap
    /\ tokenAccountData = EmptyMap
    /\ addressesToFetch = <<>>
    /\ onChainCache = EmptyMap
    /\ rpcLog = <<>>
    /\ result = <<>>

\* Lines 177-181: await getParsedTransaction; nothing found returns [].
GetParsedTransaction ==
    /\ pc = "start"
    /\ \E tx \in Transactions :
          /\ parsedTx' = tx
          /\ pc' = IF tx.present THEN "parsed" ELSE "done"
    /\ UNCHANGED << includeSolTransfers, transfers, decoded, ixMap, balMap,
                    tokenAccountData, addressesToFetch, onChainCache, rpcLog, result >>

\* Lines 183-192 (A).
GatherRawTransfers ==
    /\ pc = "parsed"
    /\ transfers' = GatherTransfers(AllInstructions(parsedTx), includeSolTransfers)
    /\ decoded' = transfers'
    /\ pc' = "gathered"
    /\ UNCHANGED << includeSolTransfers, parsedTx, ixMap, balMap, tokenAccountData,
                    addressesToFetch, onChainCache, rpcLog, result >>

\* Lines 194-196 (B).
BuildPartialMaps ==
    /\ pc = "gathered"
    /\ ixMap' = buildTokenAccountMapFromInstructions(parsedTx)
    /\ balMap' = buildTokenAccountMapFromBalances(parsedTx)
    /\ pc' = "mapped"
    /\ UNCHANGED << includeSolTransfers, parsedTx, transfers, decoded, tokenAccountData,
                    addressesToFetch, onChainCache, rpcLog, result >>

\* Lines 198-206.
UnifyMaps ==
    /\ pc = "mapped"
    /\ tokenAccountData' = Unify(balMap, ixMap)
    /\ pc' = "unified"
    /\ UNCHANGED << includeSolTransfers, parsedTx, transfers, decoded, ixMap, balMap,
                    addressesToFetch, onChainCache, rpcLog, result >>

\* Lines 211-222.
GatherLeftoverAddresses ==
    /\ pc = "unified"
    /\ addressesToFetch' = CollectAddresses(<<>>, tokenAccountData, transfers)
    /\ pc' = "collected"
    /\ UNCHANGED << includeSolTransfers, parsedTx, transfers, decoded, ixMap, balMap,
                    tokenAccountData, onChainCache, rpcLog, result >>

\* Line 225: nothing to fetch, no call.
SkipFetch ==
    /\ pc = "collected"
    /\ Len(addressesToFetch) = 0
    /\ pc' = "fetched"
    /\ UNCHANGED << includeSolTransfers, parsedTx, transfers, decoded, ixMap, balMap,
                    tokenAccountData, addressesToFetch, onChainCache, rpcLog, result >>

\* Lines 225-231 and 129-167: the one batched call answers, one info per address.
FetchAnswered ==
    /\ pc = "collected"
    /\ Len(addressesToFetch) > 0
    /\ \E accountInfos \in [1..Len(addressesToFetch) -> AccountInfos] :
          onChainCache' = fetchMultipleTokenAccountInfos(addressesToFetch, accountInfos,
                                                         onChainCache, 1)
    /\ rpcLog' = Append(rpcLog, addressesToFetch)
    /\ pc' = "fetched"
    /\ UNCHANGED << includeSolTransfers, parsedTx, transfers, decoded, ixMap, balMap,
                    tokenAccountData, addressesToFetch, result >>

\* Line 138: the awaited call rejects (transport error); nothing catches it, so
\* the promise of parseTransfersFromSignature rejects.
FetchRejected ==
    /\ pc = "collected"
    /\ Len(addressesToFetch) > 0
    /\ rpcLog' = Append(rpcLog, addressesToFetch)
    /\ pc' = "rejected"
    /\ UNCHANGED << includeSolTransfers, parsedTx, transfers, decoded, ixMap, balMap,
                    tokenAccountData, addressesToFetch, onChainCache, result >>

\* Lines 233-246.
IncorporateResults ==
    /\ pc = "fetched"
    /\ tokenAccountData' = Incorporate(tokenAccountData, onChainCache, addressesToFetch)
    /\ pc' = "incorporated"
    /\ UNCHANGED << includeSolTransfers, parsedTx, transfers, decoded, ixMap, balMap,
                    addressesToFetch, onChainCache, rpcLog, result >>

\* Lines 248-284: the two loops over transfers.
RewriteAndFix ==
    /\ pc = "incorporated"
    /\ transfers' = [i \in 1..Len(transfers) |->
                        FixDecimals(FixMint(RewriteOwners(transfers[i], tokenAccountData),
                                            tokenAccountData),
                                    tokenAccountData)]
    /\ pc' = "fixed"
    /\ UNCHANGED << includeSolTransfers, parsedTx, decoded, ixMap, balMap,
                    tokenAccountData, addressesToFetch, onChainCache, rpcLog, result >>

\* Lines 286-307.
Return ==
    /\ pc = "fixed"
    /\ result' = [i \in 1..Len(transfers) |-> Resolved(transfers[i])]
    /\ pc' = "done"
    /\ UNCHANGED << includeSolTransfers, parsedTx, transfers, decoded, ixMap, balMap,
                    tokenAccountData, addressesToFetch, onChainCache, rpcLog >>

Next ==
    \/ GetParsedTransaction
    \/ GatherRawTransfers
    \/ BuildPartialMaps
    \/ UnifyMaps
    \/ GatherLeftoverAddresses
    \/ SkipFetch
    \/ FetchAnswered
    \/ FetchRejected
    \/ IncorporateResults
    \/ RewriteAndFix
    \/ Return

Spec == Init /\ [][Next]_vars

\* ------------------------------------------------------------------ claims

\* The run returned the list built from a transaction that was found.
Returned == pc = "done" /\ parsedTx.present

\* The transaction of the scenarios: one top-level instruction, nothing else.
Only(ix) ==
    /\ parsedTx.present
    /\ parsedTx.instructions = <<ix>>
    /\ parsedTx.innerInstructions = <<>>
    /\ parsedTx.preTokenBalances = <<>>
    /\ parsedTx.postTokenBalances = <<>>

\* The batched lookup resolved nothing: every cached entry is the marker.
NothingResolved == \A a \in DOMAIN onChainCache : onChainCache[a] = NotResolvable

FiveSol == [isNull |-> FALSE, int |-> <<5>>, frac |-> <<>>]

\* C1: for the single instruction {type:"transfer", info:{source:"C1",
\* destination:"C2", lamports:5000000000}}, no token balances,
\* includeSolTransfers = true and a lookup that resolves nothing, the run
\* returns exactly one record: mint "SOL", decimals 9, amount "5000000000",
\* uiAmount 5.0, fromUserAccount "C1", toUserAccount "C2".
C1_SolTransferYieldsOneRecord ==
    (Returned /\ includeSolTransfers /\ Only(SystemTransferIx) /\ NothingResolved)
    => result = << [fromTokenAccount |-> "C1", toTokenAccount |-> "C2",
                    fromUserAccount |-> "C1", toUserAccount |-> "C2",
                    amount |-> <<5, 0, 0, 0, 0, 0, 0, 0, 0, 0>>, mint |-> SOL,
                    decimals |-> 9, uiAmount |-> FiveSol] >>

\* What the code returns in the case of C1: two records, the first a token
\* transfer of amount "0" with mint UNKNOWN_MINT, the second the SOL record.
C1_CodeReturnsTwoRecords ==
    /\ Returned /\ includeSolTransfers /\ Only(SystemTransferIx) /\ NothingResolved
    /\ Len(result) = 2
    /\ result[1].mint = UNKNOWN_MINT /\ result[1].amount = <<0>>
    /\ result[2].mint = SOL /\ result[2].uiAmount = FiveSol

\* The owner the final knowledge base gives for a container, else the container.
DisplayedOwner(container) ==
    IF container \in DOMAIN tokenAccountData /\ Truthy(tokenAccountData[container].owner)
    THEN tokenAccountData[container].owner
    ELSE container

\* C2: in every returned record fromUserAccount and toUserAccount are
\* neither missing nor empty; each is the owner of the final knowledge-base
\* entry of its container when that owner is non-null, else the container
\* address the instruction named.
C2_OwnersNeverEmpty ==
    Returned =>
        /\ Len(result) = Len(decoded)
        /\ \A i \in 1..Len(result) :
              /\ result[i].fromTokenAccount = decoded[i].rawFrom
              /\ result[i].toTokenAccount = decoded[i].rawTo
              /\ Truthy(result[i].fromUserAccount)
              /\ Truthy(result[i].toUserAccount)
              /\ result[i].fromUserAccount = DisplayedOwner(decoded[i].rawFrom)
              /\ result[i].toUserAccount = DisplayedOwner(decoded[i].rawTo)

\* A returned record with one endpoint resolved to an owner and the other one,
\* looked up and not resolved, left as the container address.
C2_ResolvedAndFallback ==
    /\ Returned
    /\ \E i \in 1..Len(result) :
          /\ result[i].fromUserAccount # result[i].fromTokenAccount
          /\ result[i].toUserAccount = result[i].toTokenAccount
          /\ result[i].toTokenAccount \in DOMAIN tokenAccountData
          /\ tokenAccountData[result[i].toTokenAccount].owner = Null

\* The hint map and the snapshot map record different owners for container c.
OwnersDisagree(c) ==
    /\ c \in DOMAIN ixMap
    /\ c \in DOMAIN balMap
    /\ Truthy(balMap[c].owner)
    /\ balMap[c].owner # ixMap[c]

\* C3: when the static hint records owner X for a container and the balance
\* snapshot records another owner Y, every returned record with that container
\* as source or destination shows X, and the container's knowledge entry keeps
\* the snapshot's mint and decimals.
C3_HintOwnerWins ==
    Returned =>
        \A c \in DOMAIN ixMap :
            OwnersDisagree(c) =>
                /\ \A i \in 1..Len(result) :
                      /\ result[i].fromTokenAccount = c
                            => result[i].fromUserAccount = ixMap[c]
                      /\ result[i].toTokenAccount = c
                            => result[i].toUserAccount = ixMap[c]
                /\ tokenAccountData[c].mint = balMap[c].mint
                /\ tokenAccountData[c].decimals = balMap[c].decimals

\* A returned record whose source container has a hint owner and another
\* snapshot owner.
C3_DisagreementReturned ==
    /\ Returned
    /\ \E i \in 1..Len(result) : OwnersDisagree(result[i].fromTokenAccount)

NoDuplicates(list) ==
    \A i, j \in 1..Len(list) : list[i] = list[j] => i = j

\* C4: in one run getMultipleAccountsInfo is called at most once: not at all
\* when the to-fetch set is empty, once otherwise, and the address list of the
\* call holds no address twice.
C4_AtMostOneBatchedCall ==
    /\ Len(rpcLog) <= 1
    /\ \A k \in 1..Len(rpcLog) : NoDuplicates(rpcLog[k]) /\ rpcLog[k] = addressesToFetch
    /\ pc \in {"fetched", "rejected", "incorporated", "fixed", "done"}
          => Len(rpcLog) = (IF Len(addressesToFetch) = 0 THEN 0 ELSE 1)

\* One call was made for a run in which the same address was an endpoint of
\* several events.
C4_CallWithRepeatedEndpoints ==
    /\ Returned
    /\ Len(rpcLog) = 1
    /\ \E i, j \in 1..Len(decoded) :
          i # j /\ decoded[i].rawFrom = decoded[j].rawFrom
                /\ decoded[i].rawFrom \in Range(rpcLog[1])

\* C5: a failed or partial batched lookup does not abort the run: the run is
\* never left rejected, and it returns one record for every raw transfer event.
C5_FailedLookupDoesNotAbort ==
    /\ pc # "rejected"
    /\ Returned => Len(result) = Len(decoded)

\* The case of C5 in the code: the lookup failed and the run, with raw
\* transfer events in hand, ended rejected.
C5_RunRejectedWithEvents == pc = "rejected" /\ Len(decoded) > 0

\* The data sources of C6 are those the resolution reads: the payload of the
\* transfer instruction itself, the balance snapshots, the accounts the lookup
\* returned.
\* A balance snapshot of the transaction names a mint for the container.
SnapshotSuppliesMint(c) ==
    \E b \in Range(parsedTx.preTokenBalances \o parsedTx.postTokenBalances) :
        /\ b.accountIndex # Undefined
        /\ AccountAt(parsedTx.accountKeys, b.accountIndex) = c
        /\ Truthy(b.mint)

\* The batched lookup returned a token account, hence a mint, for the container.
OnChainSuppliesMint(c) ==
    c \in DOMAIN onChainCache /\ Truthy(onChainCache[c].mint)

SomeSourceSuppliesMint(e) ==
    \/ e.mint # UNKNOWN_MINT
    \/ SnapshotSuppliesMint(e.rawFrom) \/ SnapshotSuppliesMint(e.rawTo)
    \/ OnChainSuppliesMint(e.rawFrom) \/ OnChainSuppliesMint(e.rawTo)

C7_OnChainMintBringsDecimals ==
    (Returned /\ Only(TokenTransferIx)) =>
        \A i \in 1..Len(result) :
            ( /\ decoded[i].mint = UNKNOWN_MINT
              /\ decoded[i].rawFrom = "C1" /\ decoded[i].rawTo = "C2"
              /\ ~SnapshotSuppliesMint("C1") /\ ~SnapshotSuppliesMint("C2")
              /\ ~OnChainSuppliesMint("C1")
              /\ OnChainSuppliesMint("C2") /\ onChainCache["C2"].mint = "MintY" )
            => /\ result[i].mint = "MintY"
               /\ result[i].decimals = 2
               /\ result[i].uiAmount = UiAmount(result[i].amount, 2)

\* What the code returns in the case of C7: the mint is found, the decimals
\* stay those of the instruction (0) and uiAmount is the raw amount.
C7_CodeKeepsZeroDecimals ==
    /\ Returned /\ Only(TokenTransferIx)
    /\ ~OnChainSuppliesMint("C1")
    /\ OnChainSuppliesMint("C2")
    /\ result[1].mint = "MintY"
    /\ result[1].decimals = 0
    /\ result[1].uiAmount = [isNull |-> FALSE, int |-> <<5, 0, 0>>, frac |-> <<>>]

\* C8: an event decoded with a concrete mint and non-zero decimals keeps both
\* in its record, whatever the knowledge base holds for its containers; the
\* mint changes only when it was UNKNOWN_MINT, the decimals only when the mint
\* was UNKNOWN_MINT or the decimals were 0.
C8_ConcreteEventNotOverwritten ==
    Returned =>
        \A i \in 1..Len(result) :
            /\ (decoded[i].mint # UNKNOWN_MINT /\ decoded[i].decimals # 0)
                  => /\ result[i].mint = decoded[i].mint
                     /\ result[i].decimals = decoded[i].decimals
            /\ result[i].mint # decoded[i].mint => decoded[i].mint = UNKNOWN_MINT
            /\ result[i].decimals # decoded[i].decimals
                  => (decoded[i].mint = UNKNOWN_MINT \/ decoded[i].decimals = 0)
            /\ result[i].amount = decoded[i].amount

\* A transferChecked record returned while the knowledge base holds another
\* mint and other decimals for its source container.
C8_CheckedAgainstOtherKnowledge ==
    /\ Returned
    /\ \E i \in 1..Len(result) :
          /\ decoded[i].mint = "MintX" /\ decoded[i].decimals = 6
          /\ decoded[i].rawFrom \in DOMAIN tokenAccountData
          /\ tokenAccountData[decoded[i].rawFrom].mint = "MintA"
          /\ tokenAccountData[decoded[i].rawFrom].decimals = 9

\* Every owner and mint known in `old` is still non-null in `new`.
NothingErased(old, new) ==
    \A a \in DOMAIN old :
        /\ a \in DOMAIN new
        /\ Truthy(old[a].owner) => Truthy(new[a].owner)
        /\ Truthy(old[a].mint) => Truthy(new[a].mint)

\* C9: across the merge steps of a run (snapshot extraction, hint overlay,
\* on-chain merge) an owner or mint the knowledge base holds is never erased,
\* and an on-chain result with null owner and mint leaves the entry of its
\* container as it was.
C9_KnowledgeNeverErased ==
    [][ /\ NothingErased(balMap, balMap')
        /\ NothingErased(tokenAccountData, tokenAccountData')
        /\ (pc = "gathered" /\ pc' = "mapped") =>
              NothingErased(gather(EmptyMap, parsedTx.accountKeys,
                                   parsedTx.preTokenBalances), balMap')
        /\ (pc = "mapped" /\ pc' = "unified") => NothingErased(balMap, tokenAccountData')
        /\ (pc = "fetched" /\ pc' = "incorporated") =>
              \A a \in DOMAIN onChainCache :
                  onChainCache[a] = NotResolvable
                     => tokenAccountData'[a] = EntryOf(tokenAccountData, a) ]_vars

\* A container whose mint the snapshot supplied was looked up, not resolved,
\* and merged.
C9_NullResultOverKnownMint ==
    /\ pc = "incorporated"
    /\ \E a \in DOMAIN onChainCache :
          /\ onChainCache[a] = NotResolvable
          /\ a \in DOMAIN balMap
          /\ Truthy(balMap[a].mint)

\* Source and destination addresses of the raw transfer events.
Endpoints == {transfers[i].rawFrom : i \in 1..Len(transfers)}
             \cup {transfers[i].rawTo : i \in 1..Len(transfers)}

\* C10: the to-fetch set is exactly the endpoints for which the pre-network
\* knowledge base has no entry, no owner, or mint UNKNOWN_MINT; so every
\* endpoint container still missing an owner or a mint is looked up.
C10_EveryIncompleteEndpointFetched ==
    pc = "collected" =>
        /\ Range(addressesToFetch) =
              {a \in Endpoints : \/ a \notin DOMAIN tokenAccountData
                                 \/ ~Truthy(tokenAccountData[a].owner)
                                 \/ tokenAccountData[a].mint = UNKNOWN_MINT}
        /\ \A a \in Endpoints :
              (\/ ~Truthy(EntryOf(tokenAccountData, a).owner)
               \/ ~Truthy(EntryOf(tokenAccountData, a).mint))
              => a \in Range(addressesToFetch)

\* What the code does in the case of C10: the source container of an
\* UNKNOWN_MINT event, whose owner a hint supplied and whose mint nothing
\* supplied, is not looked up.
C10_CodeSkipsOwnerWithoutMint ==
    /\ pc = "collected"
    /\ \E i \in 1..Len(transfers) :
          /\ transfers[i].mint = UNKNOWN_MINT
          /\ transfers[i].rawFrom \in DOMAIN tokenAccountData
          /\ tokenAccountData[transfers[i].rawFrom].mint = Null
          /\ transfers[i].rawFrom \notin Range(addressesToFetch)

====
